---- MODULE Spec2Model ----
(***************************************************************************)
(* A model of simple-s3-server: the file-backed bucket (bucket/bucket.go), *)
(* the HTTP front end (server: ServeHTTP and its four handlers, the        *)
(* options of NewFileServer) and the default credential store.             *)
(*                                                                         *)
(* Bytes are small integers.  A request body, a content file and a         *)
(* metadata file are sequences of bytes.  Paths are sequences of path      *)
(* segments relative to the server's base path; the keys of the model hold *)
(* no ".", ".." or empty segment, so path.Join is concatenation.           *)
(***************************************************************************)
EXTENDS Integers, Sequences, FiniteSets, TLC

\* ------------------------------------------------------------------ bounds
\* SpecStore runs at most this many Put and this many Get calls.
MaxPuts == 3
MaxGets == 2
\* SpecOptions gives NewFileServer at most this many options.
MaxOptions == 3
\* The bucket calls that run concurrently.
MaxCalls == 2

\* ------------------------------------------------------- errors and values
\* A nil error.
ErrNil == ""
ENOENT == "ENOENT"
ENOTDIR == "ENOTDIR"
EISDIR == "EISDIR"
ENOTEMPTY == "ENOTEMPTY"
\* The error of a request body whose read fails before end of stream.
EREAD == "EREAD"
\* json.Unmarshal on bytes that are no metadata document.
EJSON == "EJSON"

\* time.Now().UnixMilli(): the clock of the model stands still (no handler
\* compares two times).
Times == {0}

\* os.IsNotExist(err)
IsNotExist(err) == err = ENOENT

\* ------------------------------------------------------------- file system
\* fs maps every existing path to its node; the base path <<>> is a directory.
DirNode == [kind |-> "dir", data |-> <<>>, mtime |-> 0]
FileNode(data, t) == [kind |-> "file", data |-> data, mtime |-> t]

Exists(fs, p) == p \in DOMAIN fs
IsDir(fs, p) == Exists(fs, p) /\ fs[p].kind = "dir"
IsFile(fs, p) == Exists(fs, p) /\ fs[p].kind = "file"

\* path.Dir
Dir(p) == IF p = <<>> THEN <<>> ELSE SubSeq(p, 1, Len(p) - 1)
Prefixes(p) == { SubSeq(p, 1, i) : i \in 0..Len(p) }
ProperPrefixes(p) == Prefixes(p) \ {p}
HasChildren(fs, p) == \E q \in DOMAIN fs : q # p /\ p \in ProperPrefixes(q)

\* The error of walking to p's parent: a file on the way is ENOTDIR, a missing
\* directory is ENOENT.
WalkErr(fs, p) ==
    IF \E q \in ProperPrefixes(p) : IsFile(fs, q) THEN ENOTDIR
    ELSE IF \E q \in ProperPrefixes(p) : ~Exists(fs, q) THEN ENOENT
    ELSE ErrNil

\* os.MkdirAll: every missing directory of p is made, unless a file is in the way.
MkdirAll(fs, p) ==
    IF \E q \in Prefixes(p) : IsFile(fs, q)
    THEN [fs |-> fs, err |-> ENOTDIR]
    ELSE [fs |-> [q \in DOMAIN fs \cup Prefixes(p) |->
                    IF q \in DOMAIN fs THEN fs[q] ELSE DirNode],
          err |-> ErrNil]

\* os.Create: the file is made, or truncated when it exists.
Create(fs, p, t) ==
    IF WalkErr(fs, p) # ErrNil THEN [fs |-> fs, err |-> WalkErr(fs, p)]
    ELSE IF IsDir(fs, p) THEN [fs |-> fs, err |-> EISDIR]
    ELSE [fs |-> [q \in DOMAIN fs \cup {p} |->
                    IF q = p THEN FileNode(<<>>, t) ELSE fs[q]],
          err |-> ErrNil]

\* os.Open: opening a directory succeeds; reading it fails.
Open(fs, p) ==
    IF WalkErr(fs, p) # ErrNil THEN WalkErr(fs, p)
    ELSE IF ~Exists(fs, p) THEN ENOENT
    ELSE ErrNil

\* io.ReadAll / io.Copy from an open file.
ReadFile(fs, p) ==
    IF IsDir(fs, p) THEN [data |-> <<>>, err |-> EISDIR]
    ELSE [data |-> fs[p].data, err |-> ErrNil]

\* File.Write at offset 0 of a file opened by os.Create: the bytes overlay what
\* the file holds.
Overlay(old, data) ==
    IF Len(old) > Len(data) THEN data \o SubSeq(old, Len(data) + 1, Len(old))
    ELSE data
WriteFile(fs, p, data, t) ==
    [fs EXCEPT ![p] = FileNode(Overlay(fs[p].data, data), t)]

\* os.Remove: a file or an empty directory.
Remove(fs, p) ==
    IF WalkErr(fs, p) # ErrNil THEN [fs |-> fs, err |-> WalkErr(fs, p)]
    ELSE IF ~Exists(fs, p) THEN [fs |-> fs, err |-> ENOENT]
    ELSE IF HasChildren(fs, p) THEN [fs |-> fs, err |-> ENOTEMPTY]
    ELSE [fs |-> [q \in DOMAIN fs \ {p} |-> fs[q]], err |-> ErrNil]

\* ---------------------------------------------------------------- metadata
\* The Content-Type values of the model: one that is valid UTF-8, one that is not
\* (a single byte 0xff), U+FFFD, and the default of createMetadataFromFile.
CtPlain == "text/plain"
CtInvalid == "<0xff>"
CtReplaced == "<U+FFFD>"
CtOctet == "application/octet-stream"

\* A nil *Metadata (every digest of the model is positive).
NilMeta == [Digest |-> 0, ContentLength |-> 0, ContentType |-> "", ModTime |-> 0]

\* hex.EncodeToString(md5.Sum(content)), as a collision-free digest: the bytes of
\* the model are below 16, so the digest is the content read as a numeral.
RECURSIVE MD5From(_, _)
MD5From(h, content) ==
    IF content = <<>> THEN h
    ELSE MD5From(h * 16 + Head(content), Tail(content))
MD5Hex(content) == MD5From(1, content)

\* json.Marshal writes a string that is not valid UTF-8 with U+FFFD in place of
\* the invalid bytes.
JsonString(s) == IF s = CtInvalid THEN CtReplaced ELSE s
CtCode(s) ==
    CASE s = "" -> 0
      [] s = CtPlain -> 1
      [] s = CtOctet -> 2
      [] s = CtReplaced -> 3
CtName(c) ==
    CASE c = 0 -> ""
      [] c = 1 -> CtPlain
      [] c = 2 -> CtOctet
      [] c = 3 -> CtReplaced
\* json.Marshal(meta): the four fields, in the order of the struct.
Marshal(meta) ==
    << meta.Digest, meta.ContentLength, CtCode(JsonString(meta.ContentType)),
       meta.ModTime >>
\* json.Unmarshal: an empty or foreign file is an error.
Unmarshal(bytes) ==
    IF Len(bytes) # 4 \/ bytes[3] \notin 0..3
    THEN [meta |-> NilMeta, err |-> EJSON]
    ELSE [meta |-> [Digest |-> bytes[1], ContentLength |-> bytes[2],
                    ContentType |-> CtName(bytes[3]), ModTime |-> bytes[4]],
          err |-> ErrNil]

\* ------------------------------------------------------------------ bucket
\* The one bucket name of the model.
BucketName == "bkt"

\* FileBucket{path, name, directStore}; path is the base path <<>>.
FileBucket(name, directStore) == [name |-> name, directStore |-> directStore]

\* NewFileBucket: the bucket's directories are made on every call.
NewFileBucket(fs, bucketName, directStore) ==
    LET r1 == MkdirAll(fs, <<bucketName>>) IN
    IF r1.err # ErrNil THEN [fs |-> r1.fs, err |-> r1.err]
    ELSE IF directStore
    THEN MkdirAll(r1.fs, <<".metadata", bucketName>>)
    ELSE r1

\* getObjectPath: <<keyPath, metadataPath>>.
getObjectPath(f, key) ==
    IF f.directStore
    THEN << <<f.name>> \o key, <<".metadata", f.name>> \o key >>
    ELSE << <<f.name>> \o key \o <<".content">>,
            <<f.name>> \o key \o <<"metadata.json">> >>

\* getObjectFile: the key's directory is made for a read as for a write.
getObjectFile(fs, f, key, create, t) ==
    LET keyPath == getObjectPath(f, key)[1]
        r1 == MkdirAll(fs, Dir(keyPath))
    IN  IF r1.err # ErrNil THEN [fs |-> r1.fs, err |-> r1.err]
        ELSE IF create THEN Create(r1.fs, keyPath, t)
        ELSE [fs |-> r1.fs, err |-> Open(r1.fs, keyPath)]

\* PutObjectMetadata: returns the *Metadata it was given.
PutObjectMetadata(fs, f, key, meta, t) ==
    LET metadataPath == getObjectPath(f, key)[2]
        r1 == MkdirAll(fs, Dir(metadataPath))
        r2 == Create(r1.fs, metadataPath, t)
    IN  IF r1.err # ErrNil THEN [fs |-> r1.fs, err |-> r1.err, meta |-> NilMeta]
        ELSE IF r2.err # ErrNil THEN [fs |-> r2.fs, err |-> r2.err, meta |-> NilMeta]
        ELSE [fs |-> WriteFile(r2.fs, metadataPath, Marshal(meta), t),
              err |-> ErrNil, meta |-> meta]

\* The error return of PutObject after io.ReadAll, with the bytes read written
\* to the content file first.
AfterReadErrorWritten(fs, keyPath, content, t) == WriteFile(fs, keyPath, content, t)

\* The error return of PutObject after io.ReadAll: the bytes read are dropped.
AfterReadError(fs, keyPath, content, t) == fs

\* PutObject.  object.reader is what io.ReadAll(object) meets: the bytes the
\* reader delivers, then end of stream (err = ErrNil) or an error.
PutObject(fs, f, object, t) ==
    LET keyPath == getObjectPath(f, object.Key)[1]
        cf == getObjectFile(fs, f, object.Key, TRUE, t)
        content == object.reader.data
    IN  IF cf.err # ErrNil THEN [fs |-> cf.fs, err |-> cf.err, meta |-> NilMeta]
        ELSE IF object.reader.err # ErrNil
        THEN [fs |-> AfterReadError(cf.fs, keyPath, content, t),
              err |-> object.reader.err, meta |-> NilMeta]
        ELSE PutObjectMetadata(WriteFile(cf.fs, keyPath, content, t), f, object.Key,
                 [Digest |-> MD5Hex(content),
                  ContentType |-> object.ContentType,
                  ContentLength |-> Len(content),
                  ModTime |-> t], t)

\* DeleteObject: the content file, then the metadata file.
DeleteObject(fs, f, key) ==
    LET paths == getObjectPath(f, key)
        r1 == Remove(fs, paths[1])
    IN  IF r1.err # ErrNil THEN r1 ELSE Remove(r1.fs, paths[2])

\* GetObjectMetadata: a missing metadata file is (nil, nil).
GetObjectMetadata(fs, f, key) ==
    LET metadataPath == getObjectPath(f, key)[2]
        oerr == Open(fs, metadataPath)
        rd == ReadFile(fs, metadataPath)
        um == Unmarshal(rd.data)
    IN  IF IsNotExist(oerr) THEN [meta |-> NilMeta, err |-> ErrNil]
        ELSE IF oerr # ErrNil THEN [meta |-> NilMeta, err |-> oerr]
        ELSE IF rd.err # ErrNil THEN [meta |-> NilMeta, err |-> rd.err]
        ELSE um

\* createMetadataFromFile: the metadata of a content file that has none.
createMetadataFromFile(fs, f, key, t) ==
    LET keyPath == getObjectPath(f, key)[1]
        oerr == Open(fs, keyPath)
        rd == ReadFile(fs, keyPath)
    IN  IF oerr # ErrNil THEN [fs |-> fs, err |-> oerr, meta |-> NilMeta]
        ELSE IF rd.err # ErrNil THEN [fs |-> fs, err |-> rd.err, meta |-> NilMeta]
        ELSE PutObjectMetadata(fs, f, key,
                 [Digest |-> MD5Hex(rd.data),
                  ContentType |-> CtOctet,
                  ContentLength |-> Len(rd.data),
                  ModTime |-> fs[keyPath].mtime], t)

\* A nil *Object, and the Object GetObject returns: body is what io.Copy reads
\* from the open content file.
NilObject == [nil |-> TRUE, Key |-> <<>>, ContentType |-> "", Metadata |-> NilMeta,
              body |-> <<>>]

\* GetObject.
GetObject(fs, f, key, t) ==
    LET keyPath == getObjectPath(f, key)[1]
        fc == getObjectFile(fs, f, key, FALSE, t)
        md == GetObjectMetadata(fc.fs, f, key)
        cm == createMetadataFromFile(fc.fs, f, key, t)
        made == md.meta = NilMeta
        metadata == IF made THEN cm.meta ELSE md.meta
        fs2 == IF made THEN cm.fs ELSE fc.fs
    IN  IF IsNotExist(fc.err) THEN [fs |-> fc.fs, err |-> ErrNil, object |-> NilObject]
        ELSE IF fc.err # ErrNil THEN [fs |-> fc.fs, err |-> fc.err, object |-> NilObject]
        ELSE IF md.err # ErrNil THEN [fs |-> fc.fs, err |-> md.err, object |-> NilObject]
        ELSE IF made /\ cm.err # ErrNil
        THEN [fs |-> cm.fs, err |-> cm.err, object |-> NilObject]
        ELSE [fs |-> fs2, err |-> ErrNil,
              object |-> [nil |-> FALSE, Key |-> key,
                          ContentType |-> metadata.ContentType,
                          Metadata |-> metadata,
                          body |-> ReadFile(fs2, keyPath).data]]

\* -------------------------------------------------------- credential store
\* signature.Credentials; an absent credential is the zero value with ok = FALSE.
Credential(accessKey, secretKey) == [AccessKey |-> accessKey, SecretKey |-> secretKey]
NoCredential == [AccessKey |-> "", SecretKey |-> 0]

\* defaultCredentialStore.credStore, a sync.Map: a function from the access keys
\* stored so far.  Load and Store are each one atomic step.
EmptyStore == [k \in {} |-> NoCredential]

\* defaultCredentialStore.Get
Get(store, accessKey) ==
    IF accessKey \in DOMAIN store
    THEN [credentials |-> store[accessKey], ok |-> TRUE]
    ELSE [credentials |-> NoCredential, ok |-> FALSE]

\* Put by sync.Map.LoadOrStore: a credential already stored is kept.
PutIfAbsent(store, credentials) ==
    [k \in DOMAIN store \cup {credentials.AccessKey} |->
        IF k \in DOMAIN store THEN store[k] ELSE credentials]

\* defaultCredentialStore.Put
Put(store, credentials) ==
    [k \in DOMAIN store \cup {credentials.AccessKey} |->
        IF k = credentials.AccessKey THEN credentials ELSE store[k]]

\* ----------------------------------------------------------------- options
\* The stores of a program live on a heap: stores[id] is the content of store id,
\* and a signature.CredentialStore value is an id, 0 for nil.
NilStore == 0

\* server{bucketFn, credentials}: bucketFn is NewFileBucket with directStore.
WithBucket(directStore) == [opt |-> "WithBucket", directStore |-> directStore,
                            store |-> NilStore, m |-> EmptyStore]
WithAuthStore(credentials) == [opt |-> "WithAuthStore", directStore |-> FALSE,
                               store |-> credentials, m |-> EmptyStore]
\* WithAuth's map is given as the credentials it holds, by access key.
WithAuth(credentials) == [opt |-> "WithAuth", directStore |-> FALSE,
                          store |-> NilStore, m |-> credentials]

\* Put of every entry of a map; the entries have distinct access keys, so the
\* order of the range loop does not matter.
PutAll(store, m) ==
    [k \in DOMAIN store \cup DOMAIN m |-> IF k \in DOMAIN m THEN m[k] ELSE store[k]]

\* One option applied to the server under construction.  c is [server, stores].
ApplyOption(c, o) ==
    CASE o.opt = "WithBucket" ->
           [c EXCEPT !.server.directStore = o.directStore]
      [] o.opt = "WithAuthStore" ->
           [c EXCEPT !.server.credentials = o.store]
      [] o.opt = "WithAuth" ->
           LET fresh == Len(c.stores) + 1
               made == c.server.credentials = NilStore
               id == IF made THEN fresh ELSE c.server.credentials
               heap == IF made THEN Append(c.stores, EmptyStore) ELSE c.stores
           IN  [server |-> [c.server EXCEPT !.credentials = id],
                stores |-> [heap EXCEPT ![id] = PutAll(heap[id], o.m)]]

\* NewFileServer: the default server, then the options in order.
DefaultServer == [directStore |-> FALSE, credentials |-> NilStore]
RECURSIVE ApplyOptions(_, _)
ApplyOptions(c, options) ==
    IF options = <<>> THEN c
    ELSE ApplyOptions(ApplyOption(c, Head(options)), Tail(options))
NewFileServer(heap, options) ==
    ApplyOptions([server |-> DefaultServer, stores |-> heap], options)

\* ---------------------------------------------------------------- requests
\* A request: Method, Path (the segments of r.URL.Path between slashes), location
\* (the query has "location"), auth (the Authorization header), Sha256 and
\* DecodedLength (the X-Amz-Content-Sha256 and X-Amz-Decoded-Content-Length
\* headers, "" when missing), ContentType, and Body: the bytes r.Body delivers,
\* then end of stream (err = ErrNil) or an error.
StreamingPayload == "STREAMING-AWS4-HMAC-SHA256-PAYLOAD"
\* Two other values of X-Amz-Content-Sha256.
UnsignedPayload == "UNSIGNED-PAYLOAD"
StreamingUnsignedTrailer == "STREAMING-UNSIGNED-PAYLOAD-TRAILER"
NoAuth == [present |-> FALSE, AccessKey |-> "", Signature |-> 0]
Authorization(accessKey, sig) ==
    [present |-> TRUE, AccessKey |-> accessKey, Signature |-> sig]
NoBody == [data |-> <<>>, err |-> ErrNil]

\* strings.SplitN(strings.Trim(r.URL.Path, "/"), "/", 2): one element when the
\* trimmed path holds no slash, else the first segment and the rest.
SplitUri(path) ==
    IF Len(path) <= 1
    THEN [len |-> 1, bucket |-> IF path = <<>> THEN "" ELSE path[1], key |-> <<>>]
    ELSE [len |-> 2, bucket |-> path[1], key |-> Tail(path)]

\* ----------------------------------------------------- signature (from §4)
ErrNone == "ErrNone"
MethodCode(m) ==
    CASE m = "GET" -> 0 [] m = "HEAD" -> 1 [] m = "PUT" -> 2
      [] m = "DELETE" -> 3 [] OTHER -> 4
\* HMACHex(kSigning, stringToSign) over one-bit signatures: a function of the
\* secret key and of the request's canonical form.
ExpectedSignature(secretKey, r) == (secretKey + MethodCode(r.Method)) % 2

\* V4SignVerify (§4.4): the verdict for a request against a store.
V4SignVerify(r, store) ==
    IF ~r.auth.present THEN "MissingAuth"
    ELSE IF ~Get(store, r.auth.AccessKey).ok THEN "UnknownAccessKey"
    ELSE IF ExpectedSignature(Get(store, r.auth.AccessKey).credentials.SecretKey, r)
              # r.auth.Signature
    THEN "SignatureMismatch"
    ELSE ErrNone

\* ------------------------------------------------- chunk framing (from §4.5)
\* A chunk header "<size>;chunk-signature=<sig>\r\n" is one byte of the model,
\* 8 + 2 * size + sig; the bytes 1 and 2 are data.
ChunkHeader(size, sig) == 8 + 2 * size + sig
IsChunkHeader(b) == b >= 8
ChunkSize(b) == (b - 8) \div 2
ChunkSig(b) == (b - 8) % 2
RECURSIVE SumBytes(_)
SumBytes(data) == IF data = <<>> THEN 0 ELSE Head(data) + SumBytes(Tail(data))
\* The signature of a chunk, chained from the previous signature.
ChunkSignature(previous, data) == (previous + 1 + SumBytes(data)) % 2

ErrMalformedChunk == "MalformedChunkHeader"
ErrTruncatedChunk == "TruncatedChunk"
\* newChunkedReader(r.Body): the reader over the chunks' data.  It is given the
\* body alone, so it decodes the framing and can check no signature.
RECURSIVE DecodeChunks(_, _, _)
DecodeChunks(bytes, bodyErr, out) ==
    LET short == IF bodyErr # ErrNil THEN bodyErr ELSE ErrTruncatedChunk IN
    IF bytes = <<>> THEN [data |-> out, err |-> short]
    ELSE IF ~IsChunkHeader(Head(bytes)) THEN [data |-> out, err |-> ErrMalformedChunk]
    ELSE IF ChunkSize(Head(bytes)) = 0 THEN [data |-> out, err |-> ErrNil]
    ELSE IF Len(bytes) - 1 < ChunkSize(Head(bytes)) THEN [data |-> out, err |-> short]
    ELSE DecodeChunks(SubSeq(bytes, ChunkSize(Head(bytes)) + 2, Len(bytes)), bodyErr,
                      out \o SubSeq(bytes, 2, ChunkSize(Head(bytes)) + 1))
newChunkedReader(body) == DecodeChunks(body.data, body.err, <<>>)

\* The decoder of §4.5, seeded: the data of the chunks up to the first chunk
\* whose declared signature does not chain from the seed.
RECURSIVE VerifiedData(_, _, _)
VerifiedData(previous, bytes, out) ==
    IF bytes = <<>> THEN out
    ELSE IF ~IsChunkHeader(Head(bytes)) THEN out
    ELSE IF Len(bytes) - 1 < ChunkSize(Head(bytes)) THEN out
    ELSE LET n == ChunkSize(Head(bytes))
             data == SubSeq(bytes, 2, n + 1)
         IN  IF ChunkSig(Head(bytes)) # ChunkSignature(previous, data) THEN out
             ELSE IF n = 0 THEN out
             ELSE VerifiedData(ChunkSig(Head(bytes)), SubSeq(bytes, n + 2, Len(bytes)),
                               out \o data)

\* ------------------------------------------------------------------ server
\* What a handler leaves behind: the file system, the response writer (codes: the
\* WriteHeader calls in order; errors: the WriteError calls; the Etag and
\* Content-Type headers; the body written), the bucket operations it called in
\* order, and the reader it handed to PutObject.
NewWriter == [codes |-> <<>>, errors |-> 0, etag |-> 0, quoted |-> FALSE,
              ctype |-> "", body |-> <<>>]
Out(fs, w, calls, reader) == [fs |-> fs, w |-> w, calls |-> calls, reader |-> reader]

\* WriteError: WriteHeader(err.httpCode), then the XML body.
WriteError(w, httpCode) ==
    [w EXCEPT !.codes = Append(@, httpCode), !.errors = @ + 1]
\* w.WriteHeader(http.StatusOK), after the headers given.
WriteOK(w, etag, quoted, ctype, body) ==
    [w EXCEPT !.codes = Append(@, 200), !.etag = etag, !.quoted = quoted,
              !.ctype = ctype, !.body = @ \o body]

\* server.GetBucket: bucketFn is bucket.NewFileBucket(basePath, name, directStore).
GetBucket(s, fs, bucketName) == NewFileBucket(fs, bucketName, s.directStore)

\* The test of the header by its prefix "STREAMING-".
HasStreamingPrefix(sha) == sha \in {StreamingPayload, StreamingUnsignedTrailer}

\* HandlePutObject's test of X-Amz-Content-Sha256: equal to the sentinel.
IsStreaming(sha) == sha = StreamingPayload

\* The check of the companion header, left out.
NoDecodedLengthCheck(r) == FALSE

\* HandlePutObject's check of a streamed PUT: the decoded length is missing.
MissingDecodedLength(r) == IsStreaming(r.Sha256) /\ r.DecodedLength = ""

\* HandlePutObject
HandlePutObject(s, fs, r, t) ==
    LET uri == SplitUri(r.Path)
        streaming == IsStreaming(r.Sha256)
        reader == IF streaming THEN newChunkedReader(r.Body) ELSE r.Body
        b == GetBucket(s, fs, uri.bucket)
        object == [Key |-> uri.key, ContentType |-> r.ContentType, reader |-> reader]
        \* after metadata, err := bucket.PutObject(object)
        Answer(put) ==
            IF put.err # ErrNil
            THEN Out(put.fs, WriteError(NewWriter, 500), <<"GetBucket", "PutObject">>,
                     reader)
            ELSE Out(put.fs, WriteOK(NewWriter, put.meta.Digest, TRUE, "", <<>>),
                     <<"GetBucket", "PutObject">>, reader)
    IN  IF r.Method # "PUT" THEN Out(fs, WriteError(NewWriter, 405), <<>>, NoBody)
        ELSE IF uri.len # 2 THEN Out(fs, WriteError(NewWriter, 404), <<>>, NoBody)
        ELSE IF MissingDecodedLength(r)
        THEN Out(fs, WriteError(NewWriter, 400), <<>>, NoBody)
        ELSE IF b.err # ErrNil
        THEN Out(b.fs, WriteError(NewWriter, 500), <<"GetBucket">>, NoBody)
        ELSE Answer(PutObject(b.fs, FileBucket(uri.bucket, s.directStore), object, t))

\* HandleGetObject
HandleGetObject(s, fs, r, t) ==
    LET uri == SplitUri(r.Path)
        b == GetBucket(s, fs, uri.bucket)
        \* after object, err := bucket.GetObject(uri[1])
        Answer(get) ==
            IF get.err # ErrNil
            THEN Out(get.fs, WriteError(NewWriter, 500), <<"GetBucket", "GetObject">>,
                     NoBody)
            ELSE IF get.object.nil
            THEN Out(get.fs, WriteError(NewWriter, 404), <<"GetBucket", "GetObject">>,
                     NoBody)
            ELSE Out(get.fs,
                     WriteOK(NewWriter, get.object.Metadata.Digest, FALSE,
                             get.object.ContentType, get.object.body),
                     <<"GetBucket", "GetObject">>, NoBody)
    IN  IF r.Method # "GET" THEN Out(fs, WriteError(NewWriter, 405), <<>>, NoBody)
        ELSE IF r.location /\ uri.len = 1
        THEN Out(fs, WriteOK(NewWriter, 0, FALSE, "", <<>>), <<>>, NoBody)
        ELSE IF uri.len # 2 THEN Out(fs, WriteError(NewWriter, 404), <<>>, NoBody)
        ELSE IF b.err # ErrNil
        THEN Out(b.fs, WriteError(NewWriter, 500), <<"GetBucket">>, NoBody)
        ELSE Answer(GetObject(b.fs, FileBucket(uri.bucket, s.directStore), uri.key, t))

\* HandleDeleteObject: the error of DeleteObject is written and the handler goes
\* on to write 200.
HandleDeleteObject(s, fs, r) ==
    LET uri == SplitUri(r.Path)
        b == GetBucket(s, fs, uri.bucket)
        del == DeleteObject(b.fs, FileBucket(uri.bucket, s.directStore), uri.key)
        w1 == IF del.err # ErrNil THEN WriteError(NewWriter, 500) ELSE NewWriter
    IN  IF r.Method # "DELETE" THEN Out(fs, WriteError(NewWriter, 405), <<>>, NoBody)
        ELSE IF uri.len # 2 THEN Out(fs, WriteError(NewWriter, 404), <<>>, NoBody)
        ELSE IF b.err # ErrNil
        THEN Out(b.fs, WriteError(NewWriter, 500), <<"GetBucket">>, NoBody)
        ELSE Out(del.fs, [w1 EXCEPT !.codes = Append(@, 200)],
                 <<"GetBucket", "DeleteObject">>, NoBody)

\* HandleGetObjectMetadata
HandleGetObjectMetadata(s, fs, r) ==
    LET uri == SplitUri(r.Path)
        b == GetBucket(s, fs, uri.bucket)
        md == GetObjectMetadata(b.fs, FileBucket(uri.bucket, s.directStore), uri.key)
    IN  IF r.Method # "HEAD" THEN Out(fs, WriteError(NewWriter, 405), <<>>, NoBody)
        ELSE IF uri.len # 2 THEN Out(fs, WriteError(NewWriter, 404), <<>>, NoBody)
        ELSE IF b.err # ErrNil
        THEN Out(b.fs, WriteError(NewWriter, 500), <<"GetBucket">>, NoBody)
        ELSE IF md.err # ErrNil
        THEN Out(b.fs, WriteError(NewWriter, 500),
                 <<"GetBucket", "GetObjectMetadata">>, NoBody)
        ELSE IF md.meta = NilMeta
        THEN Out(b.fs, WriteError(NewWriter, 404),
                 <<"GetBucket", "GetObjectMetadata">>, NoBody)
        ELSE Out(b.fs, WriteOK(NewWriter, md.meta.Digest, FALSE, md.meta.ContentType, <<>>),
                 <<"GetBucket", "GetObjectMetadata">>, NoBody)

\* ErrSignature(err).httpCode
SignatureErrorCode == 403

\* The switch of ServeHTTP on r.Method; a method of no case writes nothing.
Dispatch(s, fs, r, t) ==
    CASE r.Method = "HEAD" -> HandleGetObjectMetadata(s, fs, r)
      [] r.Method = "PUT" -> HandlePutObject(s, fs, r, t)
      [] r.Method = "DELETE" -> HandleDeleteObject(s, fs, r)
      [] r.Method = "GET" -> HandleGetObject(s, fs, r, t)
      [] OTHER -> Out(fs, NewWriter, <<>>, NoBody)

\* ServeHTTP with the verification left out.
VerdictUnchecked(s, heap, r) == ErrNone

\* The verdict ServeHTTP acts on: ErrNone when no store is configured.
Verdict(s, heap, r) ==
    IF s.credentials # NilStore THEN V4SignVerify(r, heap[s.credentials]) ELSE ErrNone

\* ServeHTTP without the return after WriteError.
ServeHTTPNoReturn(s, heap, fs, r, t) ==
    LET d == Dispatch(s, fs, r, t) IN
    IF Verdict(s, heap, r) # ErrNone
    THEN [d EXCEPT !.w.codes = <<SignatureErrorCode>> \o @, !.w.errors = @ + 1]
    ELSE d

\* ServeHTTP
ServeHTTP(s, heap, fs, r, t) ==
    IF Verdict(s, heap, r) # ErrNone
    THEN Out(fs, WriteError(NewWriter, SignatureErrorCode), <<>>, NoBody)
    ELSE Dispatch(s, fs, r, t)

\* --------------------------------------------------------------- the state
VARIABLES
    options,  \* the options given to NewFileServer
    applied,  \* how many of them NewFileServer has applied
    server,   \* the server: directStore of its bucketFn, its credentials
    stores,   \* the heap of credential stores
    fs,       \* the file system under the base path
    fs0,      \* the file system as the request being served found it
    req,      \* the request being served, NoRequest between requests
    out,      \* what serving it left behind
    latest,   \* by key: the object of the latest successful PutObject, if not deleted
    deleted,  \* by key: DeleteObject returned nil and no PutObject was called since
    puts,     \* the credentials Put so far, in the order of their Store
    gets,     \* the Get calls so far: key, result, and the Puts that preceded
    procs     \* the concurrent bucket calls: position and local variables of each

vars == << options, applied, server, stores, fs, fs0, req, out, latest, deleted,
           puts, gets, procs >>

\* ------------------------------------------------------ inputs of the model
AccessKeys == {"AK1", "AK2"}
SecretKeys == {1, 2}
\* The credentials map given to WithAuth in the served configurations.
AuthMap == [k \in {"AK1"} |-> Credential("AK1", 1)]

Keys == { <<"a">>, <<"a", "b">> }
Paths == { <<BucketName>> } \cup { <<BucketName>> \o k : k \in Keys }
Auths == { NoAuth, Authorization("AK1", 0), Authorization("AK1", 1) }
ContentTypes == { CtPlain, CtInvalid }

\* A streamed body of one data chunk holding byte 2, then the terminal chunk; the
\* terminal chunk's signature chains from the data chunk's declared signature.
StreamBody(sig) ==
    << ChunkHeader(1, sig), 2, ChunkHeader(0, ChunkSignature(sig, <<>>)) >>
PlainBody == [data |-> <<1>>, err |-> ErrNil]
\* A body whose read delivers one byte and then fails.
FailingBody == [data |-> <<1>>, err |-> EREAD]
\* A streamed body that ends inside its data chunk.
CutBody == [data |-> <<ChunkHeader(1, 0), 2>>, err |-> ErrNil]
\* The payloads of the PUT requests: X-Amz-Content-Sha256,
\* X-Amz-Decoded-Content-Length and the body.
Payloads ==
    { << "", "", PlainBody >>,
      << "", "", FailingBody >>,
      << StreamingPayload, "", [data |-> StreamBody(0), err |-> ErrNil] >>,
      << StreamingPayload, "1", [data |-> StreamBody(0), err |-> ErrNil] >>,
      << StreamingPayload, "1", [data |-> StreamBody(1), err |-> ErrNil] >>,
      << StreamingPayload, "1", CutBody >>,
      << StreamingPayload, "1", FailingBody >>,
      << UnsignedPayload, "", PlainBody >>,
      << StreamingUnsignedTrailer, "1", [data |-> StreamBody(0), err |-> ErrNil] >> }

NoRequest == [Method |-> "NONE", Path |-> <<>>, location |-> FALSE, auth |-> NoAuth,
              Sha256 |-> "", DecodedLength |-> "", ContentType |-> "",
              Body |-> NoBody]
BodylessRequests(method) ==
    { [NoRequest EXCEPT !.Method = method, !.Path = p, !.auth = a] :
        p \in Paths, a \in Auths }
PutRequests ==
    { [Method |-> "PUT", Path |-> p, location |-> FALSE, auth |-> a,
       Sha256 |-> h[1], DecodedLength |-> h[2], ContentType |-> ct, Body |-> h[3]] :
        p \in Paths, a \in Auths, h \in Payloads, ct \in ContentTypes }
GetRequests ==
    BodylessRequests("GET")
      \cup { [r EXCEPT !.location = TRUE] : r \in BodylessRequests("GET") }

\* The option lists of the served configurations.
ServedOptions ==
    { <<>>, <<WithAuth(AuthMap)>>, <<WithBucket(TRUE)>>,
      <<WithBucket(TRUE), WithAuth(AuthMap)>> }

EmptyFS == (<<>> :> DirNode)
\* No concurrent bucket call.
NoProcs == << >>
NoOut == [w |-> NewWriter, calls |-> <<>>, reader |-> NoBody]
NoObject == [live |-> FALSE, data |-> <<>>, ctype |-> ""]

\* ------------------------------------------------------- Spec: the server
Init ==
    /\ options \in ServedOptions
    /\ applied = Len(options)
    /\ server = NewFileServer(<<>>, options).server
    /\ stores = NewFileServer(<<>>, options).stores
    /\ fs = EmptyFS
    /\ fs0 = EmptyFS
    /\ req = NoRequest
    /\ out = NoOut
    /\ latest = [k \in Keys |-> NoObject]
    /\ deleted = [k \in Keys |-> FALSE]
    /\ puts = <<>>
    /\ gets = <<>>
    /\ procs = NoProcs

Called(o, op) == \E i \in 1..Len(o.calls) : o.calls[i] = op

\* The request r is served with the outcome o of ServeHTTP.
Respond(r, o) ==
    LET key == SplitUri(r.Path).key
    IN  /\ req = NoRequest
        /\ req' = r
        /\ fs0' = fs
        /\ fs' = o.fs
        /\ out' = [w |-> o.w, calls |-> o.calls, reader |-> o.reader]
        /\ latest' =
             IF Called(o, "PutObject") /\ o.w.errors = 0
             THEN [latest EXCEPT ![key] = [live |-> TRUE, data |-> o.reader.data,
                                           ctype |-> r.ContentType]]
             ELSE IF Called(o, "DeleteObject") /\ o.w.errors = 0
             THEN [latest EXCEPT ![key] = NoObject]
             ELSE latest
        /\ deleted' =
             IF Called(o, "PutObject") THEN [deleted EXCEPT ![key] = FALSE]
             ELSE IF Called(o, "DeleteObject") /\ o.w.errors = 0
             THEN [deleted EXCEPT ![key] = TRUE]
             ELSE deleted
        /\ UNCHANGED << options, applied, server, stores, puts, gets, procs >>

\* One request served from start to end at time t.
Serve(r, t) == Respond(r, ServeHTTP(server, stores, fs, r, t))

ServePut == \E r \in PutRequests, t \in Times : Serve(r, t)
ServeGet == \E r \in GetRequests, t \in Times : Serve(r, t)
ServeHead == \E r \in BodylessRequests("HEAD"), t \in Times : Serve(r, t)
ServeDelete == \E r \in BodylessRequests("DELETE"), t \in Times : Serve(r, t)
ServeOther == \E r \in BodylessRequests("POST"), t \in Times : Serve(r, t)

\* ServeHTTP has returned: the server waits for the next request.
Return ==
    /\ req # NoRequest
    /\ req' = NoRequest
    /\ fs0' = fs
    /\ out' = NoOut
    /\ UNCHANGED << options, applied, server, stores, fs, latest, deleted, puts, gets,
                    procs >>

Next == ServePut \/ ServeGet \/ ServeHead \/ ServeDelete \/ ServeOther \/ Return

Spec == Init /\ [][Next]_vars

\* ------------------------------------------------------------------ claims
Served == req # NoRequest
ReqKey == SplitUri(req.Path).key
TheBucket == FileBucket(BucketName, server.directStore)
ErrorResponse(w) == w.errors >= 1 /\ \A i \in 1..Len(w.codes) : w.codes[i] # 200
\* The verdict of the verifier for the request being served; the server has a store.
ReqVerdict == V4SignVerify(req, stores[server.credentials])

\* C1: with a credential store configured, a request the verifier does not pass
\* is answered with an error response and reaches no handler: no bucket
\* operation is called and the file system is as the request found it.
C1_RejectedIsTerminal ==
    (Served /\ server.credentials # NilStore /\ ReqVerdict # ErrNone)
        => /\ ErrorResponse(out.w)
           /\ out.calls = <<>>
           /\ fs = fs0
\* A rejected PUT of a key, which the handler would have stored.
C1_Witness ==
    /\ Served /\ server.credentials # NilStore /\ ReqVerdict # ErrNone
    /\ req.Method = "PUT" /\ SplitUri(req.Path).len = 2
    /\ req.Body.err = ErrNil /\ req.Sha256 = ""
    /\ out.calls = <<>>

\* C2 as stated: in every configuration, PutObject is called only for a request
\* that has passed signature verification.
C2_PutOnlyVerified ==
    (Served /\ Called(out, "PutObject"))
        => (server.credentials # NilStore /\ ReqVerdict = ErrNone)
\* C2 amended: in every configuration that has a credential store, PutObject is
\* called only for a request that has passed signature verification.
C2_PutOnlyVerifiedWithStore ==
    (Served /\ Called(out, "PutObject") /\ server.credentials # NilStore)
        => ReqVerdict = ErrNone
C2_Witness ==
    Served /\ Called(out, "PutObject") /\ server.credentials # NilStore
           /\ out.w.codes = <<200>>

IsPrefix(a, b) == Len(a) <= Len(b) /\ a = SubSeq(b, 1, Len(a))
\* The request being served passed ServeHTTP's verification, or there was none.
Passed == server.credentials = NilStore \/ ReqVerdict = ErrNone
\* The signature the verifier computed for the request being served.
ReqSeed ==
    ExpectedSignature(
        Get(stores[server.credentials], req.auth.AccessKey).credentials.SecretKey, req)

\* C3: for a PUT that declares the streaming sentinel, the decoder is seeded
\* with the signature the verifier computed for the request, and PutObject is
\* handed no data of a chunk whose declared signature does not chain from it.
C3_DecoderSeeded ==
    (Served /\ req.Method = "PUT" /\ req.Sha256 = StreamingPayload
            /\ server.credentials # NilStore /\ Called(out, "PutObject"))
        => IsPrefix(out.reader.data, VerifiedData(ReqSeed, req.Body.data, <<>>))

\* What GetObject and GetObjectMetadata return for a key.
Observe(f, k) ==
    LET g == GetObject(f, TheBucket, k, 0)
        h == GetObjectMetadata(f, TheBucket, k)
    IN  [getErr |-> g.err, absent |-> g.object.nil, content |-> g.object.body,
         digest |-> g.object.Metadata.Digest,
         length |-> g.object.Metadata.ContentLength,
         ctype |-> g.object.ContentType,
         headErr |-> h.err, headDigest |-> h.meta.Digest,
         headLength |-> h.meta.ContentLength, headType |-> h.meta.ContentType]
\* The PUT being served called PutObject and the body's read failed.
PutReadFailed ==
    Served /\ req.Method = "PUT" /\ Called(out, "PutObject") /\ out.reader.err # ErrNil

\* C4: after a PUT whose body read fails, GetObject and GetObjectMetadata return
\* for the key what they returned before the PUT.
C4_NoPartialWrite ==
    PutReadFailed => Observe(fs, ReqKey) = Observe(fs0, ReqKey)

\* C5: when the body reader of a PUT fails before end of stream, the content file
\* holds none of the bytes it delivered, the metadata file is as it was, and the
\* response is an error, not 200.
C5_ReadErrorWritesNothing ==
    PutReadFailed =>
        LET paths == getObjectPath(TheBucket, ReqKey) IN
        /\ IsFile(fs, paths[1]) => fs[paths[1]].data = <<>>
        /\ Exists(fs, paths[2]) = Exists(fs0, paths[2])
        /\ Exists(fs, paths[2]) => fs[paths[2]] = fs0[paths[2]]
        /\ ErrorResponse(out.w)
\* A failed read that had delivered a byte, over a key that holds an object.
C5_Witness ==
    /\ PutReadFailed
    /\ out.reader.data # <<>>
    /\ IsFile(fs0, getObjectPath(TheBucket, ReqKey)[1])
    /\ IsFile(fs0, getObjectPath(TheBucket, ReqKey)[2])
    /\ IsFile(fs, getObjectPath(TheBucket, ReqKey)[1])

StreamedWithoutLength ==
    Served /\ req.Method = "PUT" /\ req.Sha256 = StreamingPayload
           /\ req.DecodedLength = ""
\* C6 as stated: a PUT with the streaming sentinel and no decoded length (one
\* that ServeHTTP hands to HandlePutObject) is answered 400 and calls neither
\* GetBucket nor PutObject.
C6_MissingLengthIs400 ==
    (StreamedWithoutLength /\ Passed) =>
        /\ out.w.codes = <<400>>
        /\ ~Called(out, "GetBucket") /\ ~Called(out, "PutObject")
        /\ fs = fs0
\* C6 amended: such a PUT is answered with an error and calls neither GetBucket
\* nor PutObject; the error is 400 when the request passed verification and its
\* path names a bucket and a key.
C6_MissingLengthRejected ==
    StreamedWithoutLength =>
        /\ ErrorResponse(out.w)
        /\ ~Called(out, "GetBucket") /\ ~Called(out, "PutObject")
        /\ fs = fs0
        /\ (Passed /\ SplitUri(req.Path).len = 2) => out.w.codes = <<400>>
C6_Witness ==
    /\ StreamedWithoutLength /\ Passed /\ SplitUri(req.Path).len = 2
    /\ req.Body.err = ErrNil /\ newChunkedReader(req.Body).err = ErrNil
    /\ out.w.codes = <<400>>

\* ------------------------------------- SpecStore: the store under concurrency
\* Requests call Get and Put on one defaultCredentialStore, stores[1], in any
\* interleaving.  Each call is one sync.Map operation, which is atomic: a Put is
\* complete when its Store is.
AllCredentials == { Credential(k, sk) : k \in AccessKeys, sk \in SecretKeys }

InitStore ==
    /\ options = <<>>
    /\ applied = 0
    /\ server = [directStore |-> FALSE, credentials |-> 1]
    /\ stores = <<EmptyStore>>
    /\ fs = EmptyFS
    /\ fs0 = EmptyFS
    /\ req = NoRequest
    /\ out = NoOut
    /\ latest = [k \in Keys |-> NoObject]
    /\ deleted = [k \in Keys |-> FALSE]
    /\ puts = <<>>
    /\ gets = <<>>
    /\ procs = NoProcs

PutCall ==
    \E c \in AllCredentials :
        /\ Len(puts) < MaxPuts
        /\ stores' = [stores EXCEPT ![1] = Put(@, c)]
        /\ puts' = Append(puts, c)
        /\ UNCHANGED << options, applied, server, fs, fs0, req, out, latest, deleted,
                        gets, procs >>

GetCall ==
    \E k \in AccessKeys :
        /\ Len(gets) < MaxGets
        /\ gets' = Append(gets, [key |-> k, n |-> Len(puts),
                                 credentials |-> Get(stores[1], k).credentials,
                                 ok |-> Get(stores[1], k).ok])
        /\ UNCHANGED << options, applied, server, stores, fs, fs0, req, out, latest,
                        deleted, puts, procs >>

NextStore == PutCall \/ GetCall

SpecStore == InitStore /\ [][NextStore]_vars

\* The Puts for access key k among the first n.
PutsFor(k, n) == { j \in 1..n : puts[j].AccessKey = k }
Latest(S) == CHOOSE j \in S : \A i \in S : i <= j

\* C7: a Get for k is absent exactly when no Put for k is complete, and else
\* returns the credential of the latest complete Put for k, whole; the store
\* holds for every key the latest credential Put for it, so a Put for one key
\* changes the Get of no other.
C7_LastWriteWins ==
    /\ \A i \in 1..Len(gets) :
          LET g == gets[i] IN
          /\ g.ok <=> PutsFor(g.key, g.n) # {}
          /\ g.ok => g.credentials = puts[Latest(PutsFor(g.key, g.n))]
          /\ g.ok => g.credentials.AccessKey = g.key
          /\ ~g.ok => g.credentials = NoCredential
    /\ \A k \in AccessKeys :
          /\ Get(stores[1], k).ok <=> PutsFor(k, Len(puts)) # {}
          /\ Get(stores[1], k).ok =>
                Get(stores[1], k).credentials = puts[Latest(PutsFor(k, Len(puts)))]
\* A Get that follows two Puts of different secrets for its key and a Put for the
\* other key in between.
C7_Witness ==
    \E i \in 1..Len(gets) :
        /\ gets[i].ok /\ gets[i].n = 3
        /\ puts[1].AccessKey = gets[i].key /\ puts[3].AccessKey = gets[i].key
        /\ puts[2].AccessKey # gets[i].key
        /\ puts[1].SecretKey # puts[3].SecretKey
        /\ gets[i].credentials = puts[3]

\* ------------------------------------------ SpecOptions: NewFileServer's loop
\* The caller's own store is stores[1]; the options of a server are drawn from
\* WithBucket, WithAuthStore of that store and WithAuth of two maps.
OtherMap == [k \in {"AK2"} |-> Credential("AK2", 2)]
OptionChoices ==
    { WithBucket(TRUE), WithAuthStore(1), WithAuth(AuthMap), WithAuth(OtherMap) }
OptionLists ==
    UNION { [1..n -> OptionChoices] : n \in 0..MaxOptions }

InitOptions ==
    /\ options \in OptionLists
    /\ applied = 0
    /\ server = DefaultServer
    /\ stores = <<EmptyStore>>
    /\ fs = EmptyFS
    /\ fs0 = EmptyFS
    /\ req = NoRequest
    /\ out = NoOut
    /\ latest = [k \in Keys |-> NoObject]
    /\ deleted = [k \in Keys |-> FALSE]
    /\ puts = <<>>
    /\ gets = <<>>
    /\ procs = NoProcs

\* One turn of NewFileServer's loop: options[i](&server).
ApplyNextOption ==
    /\ applied < Len(options)
    /\ LET c == ApplyOption([server |-> server, stores |-> stores],
                            options[applied + 1])
       IN  server' = c.server /\ stores' = c.stores
    /\ applied' = applied + 1
    /\ UNCHANGED << options, fs, fs0, req, out, latest, deleted, puts, gets, procs >>

NextOptions == ApplyNextOption

SpecOptions == InitOptions /\ [][NextOptions]_vars

\* C8: once NewFileServer has applied its options, the server's store returns,
\* for every WithAuth(m) among them and every access key of m, the credential
\* with m's secret key.
C8_AuthMapStored ==
    applied = Len(options) =>
        \A i \in 1..Len(options) :
            options[i].opt = "WithAuth" =>
                \A k \in DOMAIN options[i].m :
                    /\ server.credentials # NilStore
                    /\ Get(stores[server.credentials], k).ok
                    /\ Get(stores[server.credentials], k).credentials.SecretKey
                          = options[i].m[k].SecretKey

\* C9: GetObject returns, for every key, the object of the latest successful
\* PutObject that no DeleteObject has removed since: its bytes, its content type
\* (when that is valid UTF-8), the MD5 digest of the bytes and their length.
C9_PutGetRoundTrip ==
    \A k \in Keys :
        latest[k].live =>
            LET g == GetObject(fs, TheBucket, k, 0) IN
            /\ g.err = ErrNil /\ ~g.object.nil
            /\ g.object.body = latest[k].data
            /\ latest[k].ctype # CtInvalid => g.object.ContentType = latest[k].ctype
            /\ g.object.Metadata.Digest = MD5Hex(latest[k].data)
            /\ g.object.Metadata.ContentLength = Len(latest[k].data)

\* C10: from a DeleteObject that returned nil to the next PutObject on the key,
\* GetObject and GetObjectMetadata return (nil, nil) for it.
C10_DeletedIsAbsent ==
    \A k \in Keys :
        deleted[k] =>
            /\ GetObject(fs, TheBucket, k, 0).err = ErrNil
            /\ GetObject(fs, TheBucket, k, 0).object.nil
            /\ GetObjectMetadata(fs, TheBucket, k).err = ErrNil
            /\ GetObjectMetadata(fs, TheBucket, k).meta = NilMeta

\* C11: the reader handed to PutObject is the chunked decoder over the body when
\* X-Amz-Content-Sha256 equals the streaming sentinel and the body itself for
\* every other value; a PUT of another value that is answered 200 leaves the
\* request body, byte for byte, as the key's content.
C11_DecoderOnlyForSentinel ==
    (Served /\ req.Method = "PUT" /\ Called(out, "PutObject")) =>
        /\ req.Sha256 = StreamingPayload => out.reader = newChunkedReader(req.Body)
        /\ req.Sha256 # StreamingPayload => out.reader = req.Body
        /\ (req.Sha256 # StreamingPayload /\ out.w.codes = <<200>>) =>
              /\ IsFile(fs, getObjectPath(TheBucket, ReqKey)[1])
              /\ fs[getObjectPath(TheBucket, ReqKey)[1]].data = req.Body.data
\* A chunk-framed body under a header that is not the sentinel, stored as it is.
C11_Witness ==
    /\ Served /\ req.Method = "PUT" /\ out.w.codes = <<200>>
    /\ req.Sha256 = StreamingUnsignedTrailer
    /\ newChunkedReader(req.Body).data # req.Body.data
    /\ fs[getObjectPath(TheBucket, ReqKey)[1]].data = req.Body.data

\* ------------------------- SpecConcurrent: bucket calls that run concurrently
\* MaxCalls goroutines call PutObject and GetObject on one key of one bucket, as
\* the handlers of concurrent requests do; the bucket's directories exist
\* (GetBucket made them).  A step is one or more system calls of one call on the
\* file system; between two steps of a call the others may run.  No call removes
\* a file, so an open file is its path.
ConcurrentKey == <<"a">>
\* The bodies of the concurrent PutObject calls; every body is read to its end.
Contents == { <<1>>, <<2, 1>> }
IdleProc == [op |-> "", pc |-> "idle", content |-> <<>>, meta |-> NilMeta,
             err |-> ErrNil]
KeyPath == getObjectPath(TheBucket, ConcurrentKey)[1]
MetadataPath == getObjectPath(TheBucket, ConcurrentKey)[2]

InitConcurrent ==
    /\ options = <<>>
    /\ applied = 0
    /\ server \in { [DefaultServer EXCEPT !.directStore = d] : d \in BOOLEAN }
    /\ stores = <<>>
    /\ fs = GetBucket(server, EmptyFS, BucketName).fs
    /\ fs0 = EmptyFS
    /\ req = NoRequest
    /\ out = NoOut
    /\ latest = [k \in Keys |-> NoObject]
    /\ deleted = [k \in Keys |-> FALSE]
    /\ puts = <<>>
    /\ gets = <<>>
    /\ procs = [p \in 1..MaxCalls |-> IdleProc]

\* What a step of call p leaves: its next position, local variables, and fs.
Step(p, proc, fs2) ==
    /\ procs' = [procs EXCEPT ![p] = proc]
    /\ fs' = fs2
    /\ UNCHANGED << options, applied, server, stores, fs0, req, out, latest, deleted,
                    puts, gets >>
Returned(proc, err) == [proc EXCEPT !.pc = "done", !.err = err]

\* b.PutObject(object) is called with a body of Contents.
CallPutObject(p) ==
    \E content \in Contents :
        /\ procs[p].pc = "idle"
        /\ Step(p, [IdleProc EXCEPT !.op = "PutObject", !.pc = "create",
                                    !.content = content], fs)
\* b.GetObject(key) is called.
CallGetObject(p) ==
    /\ procs[p].pc = "idle"
    /\ Step(p, [IdleProc EXCEPT !.op = "GetObject", !.pc = "open"], fs)

\* PutObject: cf, err := f.getObjectFile(object.Key, true)
PutCreate(p) ==
    /\ procs[p].pc = "create"
    /\ LET After(cf) ==
              IF cf.err # ErrNil THEN Step(p, Returned(procs[p], cf.err), cf.fs)
              ELSE Step(p, [procs[p] EXCEPT !.pc = "write"], cf.fs)
       IN  After(getObjectFile(fs, TheBucket, ConcurrentKey, TRUE, 0))
\* PutObject: io.ReadAll(object), cf.Write(content), and the digest of content.
PutWrite(p) ==
    /\ procs[p].pc = "write"
    /\ Step(p, [procs[p] EXCEPT !.pc = "metaCreate",
                   !.meta = [Digest |-> MD5Hex(procs[p].content),
                             ContentType |-> CtPlain,
                             ContentLength |-> Len(procs[p].content),
                             ModTime |-> 0]],
            WriteFile(fs, KeyPath, procs[p].content, 0))
\* PutObjectMetadata: os.MkdirAll and os.Create(metadataPath).
MetaCreate(p) ==
    /\ procs[p].pc = "metaCreate"
    /\ LET After(mf) ==
              IF mf.err # ErrNil THEN Step(p, Returned(procs[p], mf.err), mf.fs)
              ELSE Step(p, [procs[p] EXCEPT !.pc = "metaWrite"], mf.fs)
       IN  After(Create(MkdirAll(fs, Dir(MetadataPath)).fs, MetadataPath, 0))
\* PutObjectMetadata: mf.Write(metadata), and the return of the call.
MetaWrite(p) ==
    /\ procs[p].pc = "metaWrite"
    /\ Step(p, Returned(procs[p], ErrNil),
            WriteFile(fs, MetadataPath, Marshal(procs[p].meta), 0))
\* GetObject: fc, err := f.getObjectFile(key, false)
GetOpen(p) ==
    /\ procs[p].pc = "open"
    /\ LET After(fc) ==
              IF IsNotExist(fc.err) THEN Step(p, Returned(procs[p], ErrNil), fc.fs)
              ELSE IF fc.err # ErrNil THEN Step(p, Returned(procs[p], fc.err), fc.fs)
              ELSE Step(p, [procs[p] EXCEPT !.pc = "getMeta"], fc.fs)
       IN  After(getObjectFile(fs, TheBucket, ConcurrentKey, FALSE, 0))
\* GetObject: metadata, err := f.GetObjectMetadata(key)
GetMeta(p) ==
    /\ procs[p].pc = "getMeta"
    /\ LET After(md) ==
              IF md.err # ErrNil THEN Step(p, Returned(procs[p], md.err), fs)
              ELSE IF md.meta = NilMeta
              THEN Step(p, [procs[p] EXCEPT !.pc = "readContent"], fs)
              ELSE Step(p, [Returned(procs[p], ErrNil) EXCEPT !.meta = md.meta], fs)
       IN  After(GetObjectMetadata(fs, TheBucket, ConcurrentKey))
\* createMetadataFromFile: os.Open, fc.Stat and io.Copy(hasher, fc).
ReadContent(p) ==
    /\ procs[p].pc = "readContent"
    /\ LET After(rd) ==
              IF Open(fs, KeyPath) # ErrNil
              THEN Step(p, Returned(procs[p], Open(fs, KeyPath)), fs)
              ELSE IF rd.err # ErrNil THEN Step(p, Returned(procs[p], rd.err), fs)
              ELSE Step(p, [procs[p] EXCEPT !.pc = "metaCreate",
                               !.meta = [Digest |-> MD5Hex(rd.data),
                                         ContentType |-> CtOctet,
                                         ContentLength |-> Len(rd.data),
                                         ModTime |-> fs[KeyPath].mtime]], fs)
       IN  After(ReadFile(fs, KeyPath))

NextConcurrent ==
    \E p \in 1..MaxCalls :
        \/ CallPutObject(p) \/ CallGetObject(p)
        \/ PutCreate(p) \/ PutWrite(p) \/ MetaCreate(p) \/ MetaWrite(p)
        \/ GetOpen(p) \/ GetMeta(p) \/ ReadContent(p)

SpecConcurrent == InitConcurrent /\ [][NextConcurrent]_vars

AllReturned == procs # NoProcs /\ \A p \in DOMAIN procs : procs[p].pc \in {"idle", "done"}
\* C12: once every concurrent PutObject and GetObject on the key has returned,
\* the stored metadata's Digest and ContentLength are the MD5 digest and the
\* length of the stored content.
C12_MetadataMatchesContent ==
    (AllReturned /\ IsFile(fs, KeyPath) /\ IsFile(fs, MetadataPath)) =>
        LET meta == Unmarshal(fs[MetadataPath].data).meta
        IN  /\ meta.Digest = MD5Hex(fs[KeyPath].data)
            /\ meta.ContentLength = Len(fs[KeyPath].data)

\* C13: once WriteError has written an error response for a request, no further
\* status is written for it: the error's status is the only WriteHeader call.
C13_ErrorIsFinal ==
    (Served /\ out.w.errors >= 1) => (out.w.errors = 1 /\ Len(out.w.codes) = 1)

\* The request being served called a read operation of the bucket.
ReadCalled == Served /\ (Called(out, "GetObject") \/ Called(out, "GetObjectMetadata"))
\* C14: a GetObject or GetObjectMetadata call creates, modifies and removes no
\* file and no directory: the file system after the request is the one GetBucket
\* handed to the call.
C14_ReadsChangeNothing ==
    ReadCalled => fs = GetBucket(server, fs0, SplitUri(req.Path).bucket).fs

\* The answers of GET and of HEAD on key k in the store as it is.
GetAnswer(k) ==
    HandleGetObject(server, fs,
        [NoRequest EXCEPT !.Method = "GET", !.Path = <<BucketName>> \o k], 0).w
HeadAnswer(k) ==
    HandleGetObjectMetadata(server, fs,
        [NoRequest EXCEPT !.Method = "HEAD", !.Path = <<BucketName>> \o k]).w
\* C15: in every state of the store, HEAD on a key answers 404 exactly when GET
\* on it answers 404, and when both answer 200 they carry the same Content-Type
\* and ETag.
C15_HeadAndGetAgree ==
    \A k \in Keys :
        /\ HeadAnswer(k).codes = <<404>> <=> GetAnswer(k).codes = <<404>>
        /\ (HeadAnswer(k).codes = <<200>> /\ GetAnswer(k).codes = <<200>>) =>
              /\ HeadAnswer(k).ctype = GetAnswer(k).ctype
              /\ HeadAnswer(k).etag = GetAnswer(k).etag

====
